---- MODULE Spec2Model ----
(***************************************************************************)
(* State-machine model of the Battleship tracker in src/src/main.rs: the   *)
(* GameState and GameSettings resources, the save directory, and the       *)
(* handle_input / handle_mouse_click systems, one action per key.          *)
(***************************************************************************)
EXTENDS Integers, Sequences, FiniteSets, TLC

\* ------------------------------------------------------------- constants
GRID_SIZE == 10

\* ---------------------------------------------------------------- bounds
\* Number of input events (frames with a key press or a click) explored
\* from a first start, and from a start on a save directory that holds files.
MaxSteps == 4
MaxFileSteps == 3
\* The cursor is driven inside rows/columns 0..MaxCursor and the far edge
\* GRID_SIZE - 1: key presses and clicks that would put it elsewhere are not
\* generated.
MaxCursor == 1
\* The cells mouse clicks land in.
ClickCells == {<<0, 0>>, <<GRID_SIZE - 1, GRID_SIZE - 1>>}

Coords == 0 .. (GRID_SIZE - 1)

CellState == {"Empty", "Ship", "Hit", "Miss"}

ShipType == {"Carrier", "Battleship", "Cruiser", "Submarine", "Destroyer"}

size(t) ==
  CASE t = "Carrier" -> 5
    [] t = "Battleship" -> 4
    [] t = "Cruiser" -> 3
    [] t = "Submarine" -> 3
    [] t = "Destroyer" -> 2

\* PlacementMode
Playing == [tag |-> "Playing"]
PlacingShip(t, h) == [tag |-> "PlacingShip", ship_type |-> t, is_horizontal |-> h]

PlacedShip(t, x, y, h) == [ship_type |-> t, x |-> x, y |-> y, is_horizontal |-> h]

SaveGame(n, pb, ob, sp, pl) ==
  [name |-> n, player_board |-> pb, opponent_board |-> ob,
   ship_positions |-> sp, ships_placed |-> pl]

EmptyBoard == [y \in Coords |-> [x \in Coords |-> "Empty"]]

\* Option<String>: <<>> is None, <<n>> is Some(n).
None == <<>>
Some(n) == <<n>>

VARIABLES
  player_board,     \* GameState.player_board[y][x]
  opponent_board,   \* GameState.opponent_board[y][x]
  selected_x,
  selected_y,
  is_player_board,
  placement_mode,
  ships_placed,     \* Vec<ShipType>
  ship_positions,   \* Vec<PlacedShip>
  show_settings,    \* GameSettings.show_settings
  current_save,     \* GameSettings.current_save
  saves,            \* GameSettings.saves
  sound_enabled,    \* GameSettings.sound_enabled
  files,            \* the save directory: file name |-> file text
  out,              \* the last line printed (println!, eprintln!)
  key,              \* the input event of the last frame (ButtonInput)
  steps,            \* input events still to come
  last_save,        \* history: the name and session of the last successful save
  random_loop,      \* place_random_ships' locals while it runs: the index of
                    \* ship_type in ships (0: not running), attempts, placed
  was_placing       \* history: the last input event came in PlacingShip mode

game == <<player_board, opponent_board, ships_placed, ship_positions>>
cursor == <<selected_x, selected_y, is_player_board>>
settings == <<show_settings, current_save, saves>>

vars == <<player_board, opponent_board, selected_x, selected_y, is_player_board,
          placement_mode, ships_placed, ship_positions, show_settings,
          current_save, saves, sound_enabled, files, out, key, steps, last_save,
          random_loop, was_placing>>

\* ------------------------------------------------------ placement engine
\* The cells a ship of length sz anchored at (x, y) covers.
Footprint(x, y, sz, h) ==
  IF h THEN {<<x + i, y>> : i \in 0 .. (sz - 1)}
       ELSE {<<x, y + i>> : i \in 0 .. (sz - 1)}

\* can_place_ship without the bounds test: cells off the grid are not looked at.
can_place_ship_loose(board, x, y, sz, h) ==
  IF h
    THEN \A i \in 0 .. (sz - 1) : (x + i) \in Coords => board[y][x + i] = "Empty"
    ELSE \A i \in 0 .. (sz - 1) : (y + i) \in Coords => board[y + i][x] = "Empty"

\* can_place_ship with the bounds comparison off by one (>= for >).
can_place_ship_tight(board, x, y, sz, h) ==
  IF h
    THEN IF x + sz >= GRID_SIZE THEN FALSE
         ELSE \A i \in 0 .. (sz - 1) : board[y][x + i] = "Empty"
    ELSE IF y + sz >= GRID_SIZE THEN FALSE
         ELSE \A i \in 0 .. (sz - 1) : board[y + i][x] = "Empty"

can_place_ship(board, x, y, sz, h) ==
  IF h
    THEN IF x + sz > GRID_SIZE THEN FALSE
         ELSE \A i \in 0 .. (sz - 1) : board[y][x + i] = "Empty"
    ELSE IF y + sz > GRID_SIZE THEN FALSE
         ELSE \A i \in 0 .. (sz - 1) : board[y + i][x] = "Empty"

\* place_ship whose loop stops one cell early.
place_ship_short(board, x, y, sz, h) ==
  [yy \in Coords |-> [xx \in Coords |->
     IF h THEN (IF yy = y /\ xx >= x /\ xx < x + sz - 1 THEN "Ship" ELSE board[yy][xx])
          ELSE (IF xx = x /\ yy >= y /\ yy < y + sz - 1 THEN "Ship" ELSE board[yy][xx])]]

place_ship(board, x, y, sz, h) ==
  [yy \in Coords |-> [xx \in Coords |->
     IF h THEN (IF yy = y /\ xx >= x /\ xx < x + sz THEN "Ship" ELSE board[yy][xx])
          ELSE (IF xx = x /\ yy >= y /\ yy < y + sz THEN "Ship" ELSE board[yy][xx])]]

ShipCovers(ship, x, y) ==
  IF ship.is_horizontal
    THEN y = ship.y /\ x >= ship.x /\ x < ship.x + size(ship.ship_type)
    ELSE x = ship.x /\ y >= ship.y /\ y < ship.y + size(ship.ship_type)

\* First ship of the list whose footprint covers (x, y), or "None".
get_ship_at(positions, x, y) ==
  LET hits == {i \in 1 .. Len(positions) : ShipCovers(positions[i], x, y)}
  IN IF hits = {} THEN "None"
     ELSE positions[CHOOSE i \in hits : \A j \in hits : i <= j].ship_type

Contains(seq, e) == \E i \in 1 .. Len(seq) : seq[i] = e

SetCell(board, x, y, s) == [board EXCEPT ![y][x] = s]


\* ---------------------------------------------------- names and file names
\* Characters are one-letter strings; a name is a sequence of characters.
Alphanumeric ==
  {"a", "b", "c", "d", "e", "f", "g", "h", "i", "j", "k", "l", "m", "n", "o",
   "p", "q", "r", "s", "t", "u", "v", "w", "x", "y", "z",
   "0", "1", "2", "3", "4", "5", "6", "7", "8", "9"}

sanitize_filename(name) ==
  [i \in 1 .. Len(name) |->
     IF name[i] \in Alphanumeric \/ name[i] = "-" \/ name[i] = "_"
       THEN name[i] ELSE "_"]

\* The words generate_random_name draws from (a few of each array).
adjectives == {<<"b", "o", "l", "d">>}
nouns == {<<"w", "o", "l", "f">>, <<"b", "e", "a", "r">>}
verbs == {<<"r", "u", "n", "s">>}

\* format!("{}-{}-{}", adj, noun, verb), for every choice of the three words.
generate_random_name ==
  {adj \o <<"-">> \o noun \o <<"-">> \o verb :
     adj \in adjectives, noun \in nouns, verb \in verbs}

\* format!("{}.json", sanitize_filename(name)); the extension is one token.
SavePath(name) == Append(sanitize_filename(name), ".json")

EndsWithJson(path) == Len(path) > 0 /\ path[Len(path)] = ".json"

\* ------------------------------------------------------------ serde_json
\* The file text of a SaveGame: JSON arrays are 1-based sequences, the
\* enum variants their names.
BoardToJson(board) ==
  [r \in 1 .. GRID_SIZE |-> [c \in 1 .. GRID_SIZE |-> board[r - 1][c - 1]]]

\* A reader that takes the outer array for the columns.
BoardFromJsonTransposed(rows) ==
  [y \in Coords |-> [x \in Coords |-> rows[x + 1][y + 1]]]

BoardFromJson(rows) ==
  [y \in Coords |-> [x \in Coords |-> rows[y + 1][x + 1]]]

ToJson(save) ==
  [name |-> save.name,
   player_board |-> BoardToJson(save.player_board),
   opponent_board |-> BoardToJson(save.opponent_board),
   ship_positions |-> save.ship_positions,
   ships_placed |-> save.ships_placed]

BoardJsonOk(rows) ==
  /\ Len(rows) = GRID_SIZE
  /\ \A r \in 1 .. Len(rows) :
       /\ Len(rows[r]) = GRID_SIZE
       /\ \A c \in 1 .. Len(rows[r]) : rows[r][c] \in CellState

\* serde_json::from_str::<SaveGame> succeeds.
ParseOk(json) ==
  /\ BoardJsonOk(json.player_board)
  /\ BoardJsonOk(json.opponent_board)
  /\ \A i \in 1 .. Len(json.ship_positions) :
       /\ json.ship_positions[i].ship_type \in ShipType
       /\ json.ship_positions[i].x \in Nat
       /\ json.ship_positions[i].y \in Nat
       /\ json.ship_positions[i].is_horizontal \in BOOLEAN
  /\ \A i \in 1 .. Len(json.ships_placed) : json.ships_placed[i] \in ShipType

\* A parse that takes each board for the other.
FromJsonSwapped(json) ==
  SaveGame(json.name, BoardFromJson(json.opponent_board),
           BoardFromJson(json.player_board), json.ship_positions,
           json.ships_placed)

FromJson(json) ==
  SaveGame(json.name, BoardFromJson(json.player_board),
           BoardFromJson(json.opponent_board), json.ship_positions,
           json.ships_placed)

\* fs::write(path, text)
WriteFile(fs, path, text) ==
  [p \in (DOMAIN fs) \cup {path} |-> IF p = path THEN text ELSE fs[p]]

\* GameState::save_to_file: the directory after a successful save under name.
save_to_file(fs, name, pb, ob, sp, pl) ==
  WriteFile(fs, SavePath(name), ToJson(SaveGame(name, pb, ob, sp, pl)))

\* The Result of GameState::load_from_file: Ok, or the error of the read
\* (no such file) or of the parse.
load_result(fs, name) ==
  IF SavePath(name) \notin DOMAIN fs THEN "NotFound"
  ELSE IF ~ParseOk(fs[SavePath(name)]) THEN "Corrupt"
  ELSE "Ok"

LoadOk(fs, name) == load_result(fs, name) = "Ok"

\* The SaveGame load_from_file copies into the session when it returns Ok.
Loaded(fs, name) == FromJson(fs[SavePath(name)])

\* A listing that gives up when one of the files does not parse.
ListableAllOrNothing(fs) ==
  IF \A p \in DOMAIN fs : EndsWithJson(p) => ParseOk(fs[p])
    THEN {p \in DOMAIN fs : EndsWithJson(p)}
    ELSE {}

\* The files load_all_saves keeps: *.json that parse.
Listable(fs) == {p \in DOMAIN fs : EndsWithJson(p) /\ ParseOk(fs[p])}

\* The orders fs::read_dir may produce the files of a set in.
Orders(S) ==
  {o \in [1 .. Cardinality(S) -> S] : \A i, j \in DOMAIN o : o[i] = o[j] => i = j}

\* GameSettings::load_all_saves: one possible resulting list per order.
load_all_saves(fs) ==
  {[i \in DOMAIN o |-> FromJson(fs[o[i]])] : o \in Orders(Listable(fs))}

\* ------------------------------------------------------ random placement
ShipOrder == <<"Carrier", "Battleship", "Cruiser", "Submarine", "Destroyer">>

\* The (x, y, is_horizontal) triples the generator's samples are drawn from:
\* the near corner, where ships fit, and the far corner, where none does.
SampleCells == {<<0, 0>>, <<GRID_SIZE - 1, GRID_SIZE - 1>>}
Samples == {<<c[1], c[2], h>> : c \in SampleCells, h \in BOOLEAN}

\* The retry loop for ships i.. of ShipOrder: a ship is placed at the first
\* sample that can_place_ship accepts, and left out when all its attempts
\* draw samples that are refused. Yields every <<board, positions, placed>>
\* the loop can end with.
RECURSIVE RandomFrom(_, _, _, _)
RandomFrom(i, board, sp, pl) ==
  IF i > Len(ShipOrder) THEN {<<board, sp, pl>>}
  ELSE LET t == ShipOrder[i]
           good == {s \in Samples : can_place_ship(board, s[1], s[2], size(t), s[3])}
           skipped == IF good # Samples THEN RandomFrom(i + 1, board, sp, pl) ELSE {}
       IN skipped \cup
          UNION {RandomFrom(i + 1,
                            place_ship(board, s[1], s[2], size(t), s[3]),
                            Append(sp, PlacedShip(t, s[1], s[2], s[3])),
                            Append(pl, t)) : s \in good}

\* GameState::place_random_ships, after its clear_board.
place_random_ships == RandomFrom(1, EmptyBoard, <<>>, <<>>)

\* ------------------------------------------------------------------ init
\* A session an earlier run saved: a Destroyer at (0,0) and one opponent mark.
PriorSave(n) ==
  SaveGame(n, place_ship(EmptyBoard, 0, 0, 2, TRUE),
           SetCell(EmptyBoard, 0, 0, "Hit"),
           <<PlacedShip("Destroyer", 0, 0, TRUE)>>, <<"Destroyer">>)

\* A file cut short: its arrays are not those of a SaveGame.
Truncated ==
  [name |-> <<"b", "a", "d">>, player_board |-> <<>>, opponent_board |-> <<>>,
   ship_positions |-> <<>>, ships_placed |-> <<>>]

NoFiles == <<>>

\* Two records whose names differ only in a character sanitize_filename
\* replaces: "a_b" in a_b.json and "a b" in c.json.
CollidingFiles ==
  WriteFile(WriteFile(NoFiles, <<"a", "_", "b", ".json">>,
                      ToJson(PriorSave(<<"a", "_", "b">>))),
            <<"c", ".json">>,
            ToJson(SaveGame(<<"a", " ", "b">>, EmptyBoard, EmptyBoard, <<>>, <<>>)))

\* A record named "bad" in c.json while bad.json is cut short, and a record
\* named "gone" in d.json with no gone.json.
BrokenFiles ==
  WriteFile(WriteFile(WriteFile(NoFiles, <<"c", ".json">>,
                                ToJson(PriorSave(<<"b", "a", "d">>))),
                      <<"b", "a", "d", ".json">>, Truncated),
            <<"d", ".json">>, ToJson(PriorSave(<<"g", "o", "n", "e">>)))

\* The save directories a start may find, other than none.
InitialFiles == {CollidingFiles, BrokenFiles}

\* place_random_ships is not running.
NotRunning == [ship |-> 0, attempts |-> 0, placed |-> FALSE]

\* GameState::default, GameSettings::default, and load_sounds' line.
Fresh ==
  /\ player_board = EmptyBoard
  /\ opponent_board = EmptyBoard
  /\ selected_x = 0
  /\ selected_y = 0
  /\ is_player_board = TRUE
  /\ placement_mode = Playing
  /\ ships_placed = <<>>
  /\ ship_positions = <<>>
  /\ show_settings = FALSE
  /\ current_save = None
  /\ saves = <<>>
  /\ sound_enabled = TRUE
  /\ out = <<"Sound effects loaded">>
  /\ key = <<"none">>
  /\ last_save = None
  /\ random_loop = NotRunning
  /\ was_placing = FALSE

\* First start: no save directory yet.
Init == Fresh /\ files = NoFiles /\ steps = MaxSteps

\* A start on a save directory that holds files.
InitFiles == Fresh /\ files \in InitialFiles /\ steps = MaxFileSteps

Window == (0 .. MaxCursor) \cup {GRID_SIZE - 1}

\* One more input event, k.
Tick(k) ==
  /\ steps > 0
  /\ steps' = steps - 1
  /\ key' = k
  /\ was_placing' = (placement_mode.tag = "PlacingShip")

\* GameState::clear_board
clear_board ==
  /\ player_board' = EmptyBoard
  /\ opponent_board' = EmptyBoard
  /\ ships_placed' = <<>>
  /\ ship_positions' = <<>>

\* The assignments of load_from_file once the file is read and parsed.
LoadInto(save) ==
  /\ player_board' = save.player_board
  /\ opponent_board' = save.opponent_board
  /\ ship_positions' = save.ship_positions
  /\ ships_placed' = save.ships_placed

\* A load that empties the session before it reads the file.
LoadFailedCleared == clear_board

\* What load_from_file leaves of the session when it returns Err: the read
\* and the parse come before every assignment.
LoadFailed == UNCHANGED game

\* GameState::load_from_file(name), on the save directory as it is.
load_from_file(name) ==
  IF LoadOk(files, name) THEN LoadInto(Loaded(files, name)) ELSE LoadFailed

\* ------------------------------------------------- handle_input, per key
\* Escape that opens or closes the settings menu in every mode.
KeyEscapeKeepsMode ==
  /\ Tick(<<"Escape">>)
  /\ show_settings' = ~show_settings
  /\ IF ~show_settings THEN saves' \in load_all_saves(files)
                       ELSE UNCHANGED saves
  /\ UNCHANGED <<placement_mode, current_save>>
  /\ UNCHANGED <<game, cursor, files, out, last_save>>
  /\ UNCHANGED <<sound_enabled, random_loop>>

\* Escape: cancel the placement, else open or close the settings menu.
KeyEscape ==
  /\ Tick(<<"Escape">>)
  /\ IF placement_mode.tag = "PlacingShip"
       THEN /\ placement_mode' = Playing
            /\ UNCHANGED settings
       ELSE /\ show_settings' = ~show_settings
            /\ IF ~show_settings THEN saves' \in load_all_saves(files)
                                 ELSE UNCHANGED saves
            /\ UNCHANGED <<placement_mode, current_save>>
  /\ UNCHANGED <<game, cursor, files, out, last_save>>
  /\ UNCHANGED <<sound_enabled, random_loop>>

\* S, with or without Ctrl held: the sound toggle of the settings menu,
\* else with Ctrl the save shortcut.
KeyS(ctrl) ==
  /\ Tick(IF ctrl THEN <<"Ctrl+S">> ELSE <<"S">>)
  /\ IF show_settings
       THEN /\ sound_enabled' = ~sound_enabled
            /\ out' = <<"Sound ", IF sound_enabled' THEN "enabled" ELSE "disabled">>
            /\ saves' \in load_all_saves(files)
            /\ UNCHANGED <<current_save, files, last_save>>
       ELSE IF ctrl
         THEN \/ \E name \in (IF current_save = None THEN generate_random_name
                                                  ELSE {current_save[1]}) :
                   /\ files' = save_to_file(files, name, player_board, opponent_board,
                                            ship_positions, ships_placed)
                   /\ out' = <<"Game saved as: ", name>>
                   /\ current_save' = Some(name)
                   /\ saves' \in load_all_saves(files')
                   /\ last_save' = Some(SaveGame(name, player_board, opponent_board,
                                                 ship_positions, ships_placed))
                   /\ UNCHANGED sound_enabled
              \/ /\ out' = <<"Failed to save game">>   \* save_to_file returned Err
                 /\ UNCHANGED <<current_save, saves, sound_enabled, files, last_save>>
         ELSE UNCHANGED <<current_save, saves, sound_enabled, files, out, last_save>>
  /\ UNCHANGED <<game, cursor, placement_mode, show_settings, random_loop>>

\* Ctrl+L: load the current save, else the first listed one.
KeyCtrlL ==
  /\ Tick(<<"Ctrl+L">>)
  /\ IF current_save # None
       THEN /\ load_from_file(current_save[1])
            /\ out' = IF LoadOk(files, current_save[1])
                        THEN <<"Game loaded: ", current_save[1]>>
                        ELSE <<"Failed to load game: ",
                               load_result(files, current_save[1])>>
            /\ UNCHANGED current_save
       ELSE IF Len(saves) > 0
         THEN /\ load_from_file(saves[1].name)
              /\ IF LoadOk(files, saves[1].name)
                   THEN /\ current_save' = Some(saves[1].name)
                        /\ out' = <<"Game loaded: ", saves[1].name>>
                   ELSE /\ UNCHANGED current_save
                        /\ out' = <<"Failed to load game: ",
                                    load_result(files, saves[1].name)>>
         ELSE /\ UNCHANGED <<game, current_save>>
              /\ out' = <<"No saves found">>
  /\ UNCHANGED <<cursor, placement_mode, show_settings, saves, files, last_save>>
  /\ UNCHANGED <<sound_enabled, random_loop>>

\* New game that keeps the current save name.
KeyCtrlNKeepsName ==
  /\ Tick(<<"Ctrl+N">>)
  /\ clear_board
  /\ out' = <<"New game started!">>
  /\ UNCHANGED <<cursor, placement_mode, settings, files, last_save>>
  /\ UNCHANGED <<sound_enabled, random_loop>>

\* Ctrl+N: new game.
KeyCtrlN ==
  /\ Tick(<<"Ctrl+N">>)
  /\ clear_board
  /\ current_save' = None
  /\ out' = <<"New game started!">>
  /\ UNCHANGED <<cursor, placement_mode, show_settings, saves, files, last_save>>
  /\ UNCHANGED <<sound_enabled, random_loop>>

\* Ctrl+P: random placement (clear_board, then the retry loops).
KeyCtrlP ==
  /\ Tick(<<"Ctrl+P">>)
  /\ opponent_board' = EmptyBoard
  /\ \E res \in place_random_ships :
       /\ player_board' = res[1]
       /\ ship_positions' = res[2]
       /\ ships_placed' = res[3]
  /\ out' = <<"Ships placed randomly!">>
  /\ UNCHANGED <<cursor, placement_mode, settings, files, last_save>>
  /\ UNCHANGED <<sound_enabled, random_loop>>

KeyArrowUp ==
  /\ Tick(<<"ArrowUp">>)
  /\ selected_y < GRID_SIZE - 1 => (selected_y + 1) \in Window
  /\ selected_y' = IF selected_y < GRID_SIZE - 1 THEN selected_y + 1 ELSE selected_y
  /\ UNCHANGED <<game, selected_x, is_player_board, placement_mode, settings,
                 files, out, last_save>>
  /\ UNCHANGED <<sound_enabled, random_loop>>

KeyArrowDown ==
  /\ Tick(<<"ArrowDown">>)
  /\ selected_y > 0 => (selected_y - 1) \in Window
  /\ selected_y' = IF selected_y > 0 THEN selected_y - 1 ELSE selected_y
  /\ UNCHANGED <<game, selected_x, is_player_board, placement_mode, settings,
                 files, out, last_save>>
  /\ UNCHANGED <<sound_enabled, random_loop>>

KeyArrowLeft ==
  /\ Tick(<<"ArrowLeft">>)
  /\ selected_x > 0 => (selected_x - 1) \in Window
  /\ selected_x' = IF selected_x > 0 THEN selected_x - 1 ELSE selected_x
  /\ UNCHANGED <<game, selected_y, is_player_board, placement_mode, settings,
                 files, out, last_save>>
  /\ UNCHANGED <<sound_enabled, random_loop>>

\* ArrowRight without the test against the right edge.
KeyArrowRightUnclamped ==
  /\ Tick(<<"ArrowRight">>)
  /\ selected_x' = selected_x + 1
  /\ UNCHANGED <<game, selected_y, is_player_board, placement_mode, settings,
                 files, out, last_save>>
  /\ UNCHANGED <<sound_enabled, random_loop>>

KeyArrowRight ==
  /\ Tick(<<"ArrowRight">>)
  /\ selected_x < GRID_SIZE - 1 => (selected_x + 1) \in Window
  /\ selected_x' = IF selected_x < GRID_SIZE - 1 THEN selected_x + 1 ELSE selected_x
  /\ UNCHANGED <<game, selected_y, is_player_board, placement_mode, settings,
                 files, out, last_save>>
  /\ UNCHANGED <<sound_enabled, random_loop>>

\* Space that turns the ship to vertical instead of flipping it.
KeySpaceSetsVertical ==
  /\ Tick(<<"Space">>)
  /\ placement_mode' =
       IF placement_mode.tag = "PlacingShip"
         THEN PlacingShip(placement_mode.ship_type, FALSE)
         ELSE placement_mode
  /\ UNCHANGED <<game, cursor, settings, files, out, last_save>>
  /\ UNCHANGED <<sound_enabled, random_loop>>

\* Space: rotate while placing.
KeySpace ==
  /\ Tick(<<"Space">>)
  /\ placement_mode' =
       IF placement_mode.tag = "PlacingShip"
         THEN PlacingShip(placement_mode.ship_type, ~placement_mode.is_horizontal)
         ELSE placement_mode
  /\ UNCHANGED <<game, cursor, settings, files, out, last_save>>
  /\ UNCHANGED <<sound_enabled, random_loop>>

\* Confirm that gives the placement up when it is refused.
KeyEnterGivesUp ==
  /\ Tick(<<"Enter">>)
  /\ IF /\ placement_mode.tag = "PlacingShip"
        /\ can_place_ship(player_board, selected_x, selected_y,
                          size(placement_mode.ship_type), placement_mode.is_horizontal)
       THEN /\ player_board' = place_ship(player_board, selected_x, selected_y,
                                 size(placement_mode.ship_type),
                                 placement_mode.is_horizontal)
            /\ ships_placed' = Append(ships_placed, placement_mode.ship_type)
            /\ ship_positions' = Append(ship_positions,
                                   PlacedShip(placement_mode.ship_type, selected_x,
                                              selected_y, placement_mode.is_horizontal))
            /\ placement_mode' = Playing
       ELSE /\ placement_mode' = Playing
            /\ UNCHANGED <<player_board, ships_placed, ship_positions>>
  /\ UNCHANGED <<opponent_board, cursor, settings, files, out, last_save>>
  /\ UNCHANGED <<sound_enabled, random_loop>>

\* Enter that records the ship but not its type.
KeyEnterNoType ==
  /\ Tick(<<"Enter">>)
  /\ IF /\ placement_mode.tag = "PlacingShip"
        /\ can_place_ship(player_board, selected_x, selected_y,
                          size(placement_mode.ship_type), placement_mode.is_horizontal)
       THEN /\ player_board' = place_ship(player_board, selected_x, selected_y,
                                 size(placement_mode.ship_type),
                                 placement_mode.is_horizontal)
            /\ ship_positions' = Append(ship_positions,
                                   PlacedShip(placement_mode.ship_type, selected_x,
                                              selected_y, placement_mode.is_horizontal))
            /\ placement_mode' = Playing
            /\ UNCHANGED ships_placed
       ELSE UNCHANGED <<player_board, ships_placed, ship_positions, placement_mode>>
  /\ UNCHANGED <<opponent_board, cursor, settings, files, out, last_save>>
  /\ UNCHANGED <<sound_enabled, random_loop>>

\* Enter: confirm the placement.
KeyEnter ==
  /\ Tick(<<"Enter">>)
  /\ IF /\ placement_mode.tag = "PlacingShip"
        /\ can_place_ship(player_board, selected_x, selected_y,
                          size(placement_mode.ship_type), placement_mode.is_horizontal)
       THEN /\ player_board' = place_ship(player_board, selected_x, selected_y,
                                 size(placement_mode.ship_type),
                                 placement_mode.is_horizontal)
            /\ ships_placed' = Append(ships_placed, placement_mode.ship_type)
            /\ ship_positions' = Append(ship_positions,
                                   PlacedShip(placement_mode.ship_type, selected_x,
                                              selected_y, placement_mode.is_horizontal))
            /\ placement_mode' = Playing
       ELSE UNCHANGED <<player_board, ships_placed, ship_positions, placement_mode>>
  /\ UNCHANGED <<opponent_board, cursor, settings, files, out, last_save>>
  /\ UNCHANGED <<sound_enabled, random_loop>>

\* Tab that switches boards in every mode.
KeyTabAnyMode ==
  /\ Tick(<<"Tab">>)
  /\ is_player_board' = ~is_player_board
  /\ UNCHANGED <<game, selected_x, selected_y, placement_mode, settings, files,
                 out, last_save>>
  /\ UNCHANGED <<sound_enabled, random_loop>>

\* Tab: switch boards.
KeyTab ==
  /\ Tick(<<"Tab">>)
  /\ is_player_board' = IF placement_mode = Playing THEN ~is_player_board
                        ELSE is_player_board
  /\ UNCHANGED <<game, selected_x, selected_y, placement_mode, settings, files,
                 out, last_save>>
  /\ UNCHANGED <<sound_enabled, random_loop>>

\* Digit keys that select a type in every mode.
KeyDigitAnyMode(i) ==
  /\ Tick(<<"Digit", i>>)
  /\ IF show_settings
       THEN /\ IF i <= Len(saves)
                 THEN /\ load_from_file(saves[i].name)
                      /\ IF LoadOk(files, saves[i].name)
                           THEN /\ current_save' = Some(saves[i].name)
                                /\ show_settings' = FALSE
                                /\ out' = <<"Loaded: ", saves[i].name>>
                           ELSE /\ UNCHANGED <<current_save, show_settings>>
                                /\ out' = <<"Failed to load save: ",
                                            load_result(files, saves[i].name)>>
                 ELSE UNCHANGED <<game, current_save, show_settings, out>>
            /\ UNCHANGED <<placement_mode, is_player_board>>
       ELSE /\ IF ~Contains(ships_placed, ShipOrder[i])
                 THEN /\ placement_mode' = PlacingShip(ShipOrder[i], TRUE)
                      /\ is_player_board' = TRUE
                 ELSE UNCHANGED <<placement_mode, is_player_board>>
            /\ UNCHANGED <<game, current_save, show_settings, out>>
  /\ UNCHANGED <<selected_x, selected_y, saves, files, last_save>>
  /\ UNCHANGED <<sound_enabled, random_loop>>

\* Digit keys that select a type without looking at ships_placed.
KeyDigitAnyType(i) ==
  /\ Tick(<<"Digit", i>>)
  /\ IF show_settings
       THEN /\ IF i <= Len(saves)
                 THEN /\ load_from_file(saves[i].name)
                      /\ IF LoadOk(files, saves[i].name)
                           THEN /\ current_save' = Some(saves[i].name)
                                /\ show_settings' = FALSE
                                /\ out' = <<"Loaded: ", saves[i].name>>
                           ELSE /\ UNCHANGED <<current_save, show_settings>>
                                /\ out' = <<"Failed to load save: ",
                                            load_result(files, saves[i].name)>>
                 ELSE UNCHANGED <<game, current_save, show_settings, out>>
            /\ UNCHANGED <<placement_mode, is_player_board>>
       ELSE /\ IF placement_mode = Playing
                 THEN /\ placement_mode' = PlacingShip(ShipOrder[i], TRUE)
                      /\ is_player_board' = TRUE
                 ELSE UNCHANGED <<placement_mode, is_player_board>>
            /\ UNCHANGED <<game, current_save, show_settings, out>>
  /\ UNCHANGED <<selected_x, selected_y, saves, files, last_save>>
  /\ UNCHANGED <<sound_enabled, random_loop>>

\* Digit1..Digit5: load the i-th listed save while the settings menu is
\* open, else select the i-th ship type for placement.
KeyDigit(i) ==
  /\ Tick(<<"Digit", i>>)
  /\ IF show_settings
       THEN /\ IF i <= Len(saves)
                 THEN /\ load_from_file(saves[i].name)
                      /\ IF LoadOk(files, saves[i].name)
                           THEN /\ current_save' = Some(saves[i].name)
                                /\ show_settings' = FALSE
                                /\ out' = <<"Loaded: ", saves[i].name>>
                           ELSE /\ UNCHANGED <<current_save, show_settings>>
                                /\ out' = <<"Failed to load save: ",
                                            load_result(files, saves[i].name)>>
                 ELSE UNCHANGED <<game, current_save, show_settings, out>>
            /\ UNCHANGED <<placement_mode, is_player_board>>
       ELSE /\ IF placement_mode = Playing /\ ~Contains(ships_placed, ShipOrder[i])
                 THEN /\ placement_mode' = PlacingShip(ShipOrder[i], TRUE)
                      /\ is_player_board' = TRUE
                 ELSE UNCHANGED <<placement_mode, is_player_board>>
            /\ UNCHANGED <<game, current_save, show_settings, out>>
  /\ UNCHANGED <<selected_x, selected_y, saves, files, last_save>>
  /\ UNCHANGED <<sound_enabled, random_loop>>

\* Mark hit that does not look at the own cell first.
KeyHUnconditional ==
  /\ Tick(<<"H">>)
  /\ IF placement_mode = Playing
       THEN IF is_player_board
              THEN /\ player_board' =
                        SetCell(player_board, selected_x, selected_y, "Hit")
                   /\ UNCHANGED opponent_board
              ELSE /\ opponent_board' =
                        SetCell(opponent_board, selected_x, selected_y, "Hit")
                   /\ UNCHANGED player_board
       ELSE UNCHANGED <<player_board, opponent_board>>
  /\ UNCHANGED <<ships_placed, ship_positions, cursor, placement_mode, settings,
                 files, out, last_save>>
  /\ UNCHANGED <<sound_enabled, random_loop>>

\* H: mark hit.
KeyH ==
  /\ Tick(<<"H">>)
  /\ IF placement_mode = Playing
       THEN IF is_player_board
              THEN /\ player_board' =
                        IF player_board[selected_y][selected_x] = "Ship"
                          THEN SetCell(player_board, selected_x, selected_y, "Hit")
                          ELSE player_board
                   /\ UNCHANGED opponent_board
              ELSE /\ opponent_board' =
                        SetCell(opponent_board, selected_x, selected_y, "Hit")
                   /\ UNCHANGED player_board
       ELSE UNCHANGED <<player_board, opponent_board>>
  /\ UNCHANGED <<ships_placed, ship_positions, cursor, placement_mode, settings,
                 files, out, last_save>>
  /\ UNCHANGED <<sound_enabled, random_loop>>

\* Mark miss that does not look at the own cell first.
KeyMUnconditional ==
  /\ Tick(<<"M">>)
  /\ IF placement_mode = Playing
       THEN IF is_player_board
              THEN /\ player_board' =
                        SetCell(player_board, selected_x, selected_y, "Miss")
                   /\ UNCHANGED opponent_board
              ELSE /\ opponent_board' =
                        SetCell(opponent_board, selected_x, selected_y, "Miss")
                   /\ UNCHANGED player_board
       ELSE UNCHANGED <<player_board, opponent_board>>
  /\ UNCHANGED <<ships_placed, ship_positions, cursor, placement_mode, settings,
                 files, out, last_save>>
  /\ UNCHANGED <<sound_enabled, random_loop>>

\* M: mark miss.
KeyM ==
  /\ Tick(<<"M">>)
  /\ IF placement_mode = Playing
       THEN IF is_player_board
              THEN /\ player_board' =
                        IF player_board[selected_y][selected_x] # "Ship"
                          THEN SetCell(player_board, selected_x, selected_y, "Miss")
                          ELSE player_board
                   /\ UNCHANGED opponent_board
              ELSE /\ opponent_board' =
                        SetCell(opponent_board, selected_x, selected_y, "Miss")
                   /\ UNCHANGED player_board
       ELSE UNCHANGED <<player_board, opponent_board>>
  /\ UNCHANGED <<ships_placed, ship_positions, cursor, placement_mode, settings,
                 files, out, last_save>>
  /\ UNCHANGED <<sound_enabled, random_loop>>

\* Clear cell that spares the own board's Ship cells.
KeyCSparesShips ==
  /\ Tick(<<"C">>)
  /\ IF placement_mode = Playing
       THEN IF is_player_board
              THEN /\ player_board' =
                        IF player_board[selected_y][selected_x] # "Ship"
                          THEN SetCell(player_board, selected_x, selected_y, "Empty")
                          ELSE player_board
                   /\ UNCHANGED opponent_board
              ELSE /\ opponent_board' =
                        SetCell(opponent_board, selected_x, selected_y, "Empty")
                   /\ UNCHANGED player_board
       ELSE UNCHANGED <<player_board, opponent_board>>
  /\ UNCHANGED <<ships_placed, ship_positions, cursor, placement_mode, settings,
                 files, out, last_save>>
  /\ UNCHANGED <<sound_enabled, random_loop>>

\* C: clear cell.
KeyC ==
  /\ Tick(<<"C">>)
  /\ IF placement_mode = Playing
       THEN IF is_player_board
              THEN /\ player_board' =
                        SetCell(player_board, selected_x, selected_y, "Empty")
                   /\ UNCHANGED opponent_board
              ELSE /\ opponent_board' =
                        SetCell(opponent_board, selected_x, selected_y, "Empty")
                   /\ UNCHANGED player_board
       ELSE UNCHANGED <<player_board, opponent_board>>
  /\ UNCHANGED <<ships_placed, ship_positions, cursor, placement_mode, settings,
                 files, out, last_save>>
  /\ UNCHANGED <<sound_enabled, random_loop>>

\* Reset that leaves the placed-type list as it is.
KeyRKeepsPlaced ==
  /\ Tick(<<"R">>)
  /\ IF placement_mode = Playing
       THEN /\ player_board' = EmptyBoard
            /\ opponent_board' = EmptyBoard
            /\ ship_positions' = <<>>
            /\ UNCHANGED ships_placed
       ELSE UNCHANGED game
  /\ UNCHANGED <<cursor, placement_mode, settings, files, out, last_save>>
  /\ UNCHANGED <<sound_enabled, random_loop>>

\* R that empties the lists and the opponent board but not the own board.
KeyRKeepsBoard ==
  /\ Tick(<<"R">>)
  /\ IF placement_mode = Playing
       THEN /\ opponent_board' = EmptyBoard
            /\ ships_placed' = <<>>
            /\ ship_positions' = <<>>
            /\ UNCHANGED player_board
       ELSE UNCHANGED game
  /\ UNCHANGED <<cursor, placement_mode, settings, files, out, last_save>>
  /\ UNCHANGED <<sound_enabled, random_loop>>

\* R: reset all.
KeyR ==
  /\ Tick(<<"R">>)
  /\ IF placement_mode = Playing
       THEN /\ player_board' = EmptyBoard
            /\ opponent_board' = EmptyBoard
            /\ ships_placed' = <<>>
            /\ ship_positions' = <<>>
       ELSE UNCHANGED game
  /\ UNCHANGED <<cursor, placement_mode, settings, files, out, last_save>>
  /\ UNCHANGED <<sound_enabled, random_loop>>

\* ---------------------------------------------------- handle_mouse_click
\* A left click inside the cell (x, y) of the own (b) or opponent board.
MouseClick(x, y, b) ==
  /\ Tick(<<"Click">>)
  /\ selected_x' = x
  /\ selected_y' = y
  /\ is_player_board' = b
  /\ UNCHANGED <<game, placement_mode, settings, files, out, last_save>>
  /\ UNCHANGED <<sound_enabled, random_loop>>

Next ==
  \/ KeyEscape
  \/ \E ctrl \in BOOLEAN : KeyS(ctrl)
  \/ KeyCtrlL
  \/ KeyCtrlN
  \/ KeyCtrlP
  \/ KeyArrowUp
  \/ KeyArrowDown
  \/ KeyArrowLeft
  \/ KeyArrowRight
  \/ KeySpace
  \/ KeyEnter
  \/ KeyTab
  \/ \E i \in 1 .. 5 : KeyDigit(i)
  \/ KeyH
  \/ KeyM
  \/ KeyC
  \/ KeyR
  \/ \E c \in ClickCells, b \in BOOLEAN : MouseClick(c[1], c[2], b)

Spec == Init /\ [][Next]_vars

SpecFiles == InitFiles /\ [][Next]_vars

\* ------------------------------------------- a loaded session, played on
MaxSavedSteps == 2

\* The state SpecFiles reaches on CollidingFiles by Escape, the digit of one
\* of the two listed records and H on the Destroyer's cell (0, 0): either
\* name loads a_b.json, the file both names are sanitized to.
InitSaved ==
  /\ files = CollidingFiles
  /\ saves \in load_all_saves(CollidingFiles)
  /\ \E i \in DOMAIN saves :
       /\ current_save = Some(saves[i].name)
       /\ out = <<"Loaded: ", saves[i].name>>
       /\ player_board = SetCell(Loaded(files, saves[i].name).player_board, 0, 0, "Hit")
       /\ opponent_board = Loaded(files, saves[i].name).opponent_board
       /\ ship_positions = Loaded(files, saves[i].name).ship_positions
       /\ ships_placed = Loaded(files, saves[i].name).ships_placed
  /\ selected_x = 0
  /\ selected_y = 0
  /\ is_player_board = TRUE
  /\ placement_mode = Playing
  /\ show_settings = FALSE
  /\ sound_enabled = TRUE
  /\ key = <<"H">>
  /\ last_save = None
  /\ random_loop = NotRunning
  /\ was_placing = FALSE
  /\ steps = MaxSavedSteps

SpecSaved == InitSaved /\ [][Next]_vars

\* --------------------------------- place_random_ships, attempt by attempt
\* The attempts the retry loop allows each ship type.
ATTEMPT_LIMIT == 100

\* The cells the samples of the attempts are drawn from: two anchors where
\* ships fit, far enough apart for two ships, and the far corner, where
\* none fits.
RandomCells == {<<0, 0>>, <<5, 5>>, <<GRID_SIZE - 1, GRID_SIZE - 1>>}
RandomSamples == {<<c[1], c[2], h>> : c \in RandomCells, h \in BOOLEAN}

\* Ctrl+P is pressed: place_random_ships is entered, clear_board runs, and
\* the for loop starts with the first ship type.
RandomBegin ==
  /\ random_loop.ship = 0
  /\ Tick(<<"Ctrl+P">>)
  /\ clear_board
  /\ random_loop' = [ship |-> 1, attempts |-> 0, placed |-> FALSE]
  /\ UNCHANGED <<cursor, placement_mode, settings, sound_enabled, files, out,
                 last_save>>

\* A pass of the while loop that places the ship wherever the sample falls.
RandomAttemptUnchecked ==
  /\ random_loop.ship \in 1 .. Len(ShipOrder)
  /\ ~random_loop.placed /\ random_loop.attempts < ATTEMPT_LIMIT
  /\ \E s \in RandomSamples :
       LET t == ShipOrder[random_loop.ship]
       IN /\ player_board' = place_ship(player_board, s[1], s[2], size(t), s[3])
          /\ ship_positions' = Append(ship_positions, PlacedShip(t, s[1], s[2], s[3]))
          /\ ships_placed' = Append(ships_placed, t)
          /\ random_loop' = [random_loop EXCEPT !.placed = TRUE, !.attempts = @ + 1]
  /\ UNCHANGED <<opponent_board, cursor, placement_mode, settings, sound_enabled,
                 files, out, key, steps, last_save, was_placing>>

\* A pass of the while loop that does not note its success.
RandomAttemptKeepsTrying ==
  /\ random_loop.ship \in 1 .. Len(ShipOrder)
  /\ ~random_loop.placed /\ random_loop.attempts < ATTEMPT_LIMIT
  /\ \E s \in RandomSamples :
       LET t == ShipOrder[random_loop.ship]
       IN IF can_place_ship(player_board, s[1], s[2], size(t), s[3])
            THEN /\ player_board' = place_ship(player_board, s[1], s[2], size(t), s[3])
                 /\ ship_positions' = Append(ship_positions,
                                             PlacedShip(t, s[1], s[2], s[3]))
                 /\ ships_placed' = Append(ships_placed, t)
            ELSE UNCHANGED <<player_board, ship_positions, ships_placed>>
  /\ random_loop' = [random_loop EXCEPT !.attempts = @ + 1]
  /\ UNCHANGED <<opponent_board, cursor, placement_mode, settings, sound_enabled,
                 files, out, key, steps, last_save, was_placing>>

\* One pass of the while loop: a sample, the test, the placement if the
\* test accepts it, attempts += 1.
RandomAttempt ==
  /\ random_loop.ship \in 1 .. Len(ShipOrder)
  /\ ~random_loop.placed /\ random_loop.attempts < ATTEMPT_LIMIT
  /\ \E s \in RandomSamples :
       LET t == ShipOrder[random_loop.ship]
       IN IF can_place_ship(player_board, s[1], s[2], size(t), s[3])
            THEN /\ player_board' = place_ship(player_board, s[1], s[2], size(t), s[3])
                 /\ ship_positions' = Append(ship_positions,
                                             PlacedShip(t, s[1], s[2], s[3]))
                 /\ ships_placed' = Append(ships_placed, t)
                 /\ random_loop' = [random_loop EXCEPT
                                      !.placed = TRUE, !.attempts = @ + 1]
            ELSE /\ UNCHANGED <<player_board, ship_positions, ships_placed>>
                 /\ random_loop' = [random_loop EXCEPT !.attempts = @ + 1]
  /\ UNCHANGED <<opponent_board, cursor, placement_mode, settings, sound_enabled,
                 files, out, key, steps, last_save, was_placing>>

\* The while loop is left and the for loop takes the next ship type.
RandomNextShip ==
  /\ random_loop.ship \in 1 .. Len(ShipOrder)
  /\ random_loop.placed \/ random_loop.attempts >= ATTEMPT_LIMIT
  /\ random_loop' = [random_loop EXCEPT
                       !.ship = @ + 1, !.attempts = 0, !.placed = FALSE]
  /\ UNCHANGED <<game, cursor, placement_mode, settings, sound_enabled, files, out,
                 key, steps, last_save, was_placing>>

\* The for loop is over: place_random_ships returns and the line is printed.
RandomEnd ==
  /\ random_loop.ship = Len(ShipOrder) + 1
  /\ random_loop' = NotRunning
  /\ out' = <<"Ships placed randomly!">>
  /\ UNCHANGED <<game, cursor, placement_mode, settings, sound_enabled, files,
                 key, steps, last_save, was_placing>>

\* A session before Ctrl+P: empty or not, placing a ship or not, either
\* board active.
InitRandom ==
  /\ \E s \in {SaveGame(<<>>, EmptyBoard, EmptyBoard, <<>>, <<>>),
                PriorSave(<<"a">>)} :
       /\ player_board = s.player_board
       /\ opponent_board = s.opponent_board
       /\ ship_positions = s.ship_positions
       /\ ships_placed = s.ships_placed
  /\ selected_x = 0
  /\ selected_y = 0
  /\ is_player_board \in BOOLEAN
  /\ placement_mode \in {Playing, PlacingShip("Carrier", TRUE)}
  /\ show_settings = FALSE
  /\ current_save = None
  /\ saves = <<>>
  /\ sound_enabled = TRUE
  /\ files = NoFiles
  /\ out = <<"Sound effects loaded">>
  /\ key = <<"none">>
  /\ steps = 1
  /\ last_save = None
  /\ random_loop = NotRunning
  /\ was_placing = FALSE

NextRandom == RandomBegin \/ RandomAttempt \/ RandomNextShip \/ RandomEnd

\* Once entered, place_random_ships runs on to its return.
SpecRandom ==
  /\ InitRandom
  /\ [][NextRandom]_vars
  /\ WF_vars(RandomAttempt \/ RandomNextShip \/ RandomEnd)

\* ------------------------------------------- can_place_ship on its own
\* Boards with at most one cell that is not Empty, in any of its states.
ProbeCells == {<<0, 0>>, <<2, 0>>, <<0, 3>>, <<GRID_SIZE - 1, GRID_SIZE - 1>>}
ProbeBoards ==
  {EmptyBoard} \cup
  {SetCell(EmptyBoard, c[1], c[2], st) : c \in ProbeCells,
                                         st \in CellState \ {"Empty"}}

\* Any such board, any anchor, any ship type and orientation being placed.
InitCanPlace ==
  /\ player_board \in ProbeBoards
  /\ opponent_board = EmptyBoard
  /\ selected_x \in Coords
  /\ selected_y \in Coords
  /\ is_player_board = TRUE
  /\ placement_mode \in {PlacingShip(t, h) : t \in ShipType, h \in BOOLEAN}
  /\ ships_placed = <<>>
  /\ ship_positions = <<>>
  /\ show_settings = FALSE
  /\ current_save = None
  /\ saves = <<>>
  /\ sound_enabled = TRUE
  /\ files = NoFiles
  /\ out = <<"Sound effects loaded">>
  /\ key = <<"none">>
  /\ steps = 1
  /\ last_save = None
  /\ random_loop = NotRunning
  /\ was_placing = FALSE

SpecCanPlace == InitCanPlace /\ [][KeyEnter]_vars

\* ================================================================ claims
FootprintOf(ship) ==
  Footprint(ship.x, ship.y, size(ship.ship_type), ship.is_horizontal)

\* The cells of a footprint all lie in the grid and are Empty on board.
FreeInGrid(board, x, y, sz, h) ==
  \A c \in Footprint(x, y, sz, h) :
    c[1] \in Coords /\ c[2] \in Coords /\ board[c[2]][c[1]] = "Empty"

\* The selected cell of the own and of the opponent board.
OwnCell == player_board[selected_y][selected_x]
OppCell == opponent_board[selected_y][selected_x]

\* C1: in every reachable state the footprints of any two distinct entries
\* of the placed-ship list are disjoint.
NoOverlap ==
  \A i, j \in 1 .. Len(ship_positions) :
    i # j => FootprintOf(ship_positions[i]) \cap FootprintOf(ship_positions[j]) = {}

\* C2: in every reachable state each ship type occurs at most once in the
\* placed-ship list and at most once in the placed-type list.
NoDuplicateTypes ==
  /\ \A i, j \in 1 .. Len(ship_positions) :
       i # j => ship_positions[i].ship_type # ship_positions[j].ship_type
  /\ \A i, j \in 1 .. Len(ships_placed) :
       i # j => ships_placed[i] # ships_placed[j]

\* A step that loads the save named n successfully: Ctrl+L, or a digit in
\* the settings menu.
LoadsOk(n) ==
  \/ /\ key' = <<"Ctrl+L">>
     /\ out'[1] = "Game loaded: "
     /\ out'[2] = n
  \/ /\ show_settings
     /\ key'[1] = "Digit"
     /\ key'[2] <= Len(saves)
     /\ out'[1] = "Loaded: "
     /\ out'[2] = n

\* C3: a successful load of the name of the last successful save, with no
\* save in between, leaves both boards, the placed-ship list and the
\* placed-type list equal to their values at that save.
RoundTrip ==
  [][(last_save # None /\ LoadsOk(last_save[1].name)) =>
       /\ player_board' = last_save[1].player_board
       /\ opponent_board' = last_save[1].opponent_board
       /\ ship_positions' = last_save[1].ship_positions
       /\ ships_placed' = last_save[1].ships_placed]_vars

\* A session with a ship and an opponent mark was saved, then changed, and
\* the load of the same name has just brought it back.
RoundTripWitness ==
  /\ key = <<"Ctrl+L">>
  /\ out[1] = "Game loaded: "
  /\ last_save # None
  /\ out[2] = last_save[1].name
  /\ last_save[1].ship_positions # <<>>
  /\ player_board = last_save[1].player_board
  /\ player_board # EmptyBoard

\* The name a load command of this step asks for, or None when the step
\* is no load.
LoadAsked ==
  IF key' = <<"Ctrl+L">>
    THEN IF current_save # None THEN current_save
         ELSE IF Len(saves) > 0 THEN Some(saves[1].name) ELSE None
  ELSE IF show_settings /\ key'[1] = "Digit" /\ key'[2] <= Len(saves)
    THEN Some(saves[key'[2]].name)
  ELSE None

\* C4: a load of a name whose file is missing or does not parse reports an
\* error and leaves boards, lists, cursor, active board and mode unchanged.
FailedLoadKeepsSession ==
  [][(/\ LoadAsked # None
      /\ \/ SavePath(LoadAsked[1]) \notin DOMAIN files
         \/ ~ParseOk(files[SavePath(LoadAsked[1])])) =>
       /\ out'[1] \in {"Failed to load game: ", "Failed to load save: "}
       /\ UNCHANGED <<game, cursor, placement_mode>>]_vars

\* A listed save whose file does not parse was asked for after the session
\* had been marked.
FailedLoadWitness ==
  /\ key[1] = "Digit"
  /\ out = <<"Failed to load save: ", "Corrupt">>
  /\ player_board # EmptyBoard

\* C5: can_place_ship is true exactly when every cell of the footprint lies
\* in the grid and is Empty; a refused confirm leaves the board as it was.
CanPlaceIffFree ==
  /\ [](placement_mode.tag = "PlacingShip" =>
          (can_place_ship(player_board, selected_x, selected_y,
                          size(placement_mode.ship_type),
                          placement_mode.is_horizontal)
           <=> FreeInGrid(player_board, selected_x, selected_y,
                          size(placement_mode.ship_type),
                          placement_mode.is_horizontal)))
  /\ [][(/\ key' = <<"Enter">>
         /\ placement_mode.tag = "PlacingShip") =>
          IF FreeInGrid(player_board, selected_x, selected_y,
                        size(placement_mode.ship_type),
                        placement_mode.is_horizontal)
            THEN placement_mode' = Playing
            ELSE placement_mode' = placement_mode /\ player_board' = player_board]_vars

\* A confirm was refused for a footprint that lies in the grid and covers a
\* cell that is not Empty.
CanPlaceWitness ==
  /\ key = <<"Enter">>
  /\ placement_mode.tag = "PlacingShip"
  /\ \A c \in Footprint(selected_x, selected_y, size(placement_mode.ship_type),
                        placement_mode.is_horizontal) :
       c[1] \in Coords /\ c[2] \in Coords
  /\ \E c \in Footprint(selected_x, selected_y, size(placement_mode.ship_type),
                        placement_mode.is_horizontal) :
       player_board[c[2]][c[1]] = "Hit"

\* C6: right after a successful confirm of type T every cell of the new
\* footprint is Ship, get_ship_at gives T on each of them, and get_ship_at
\* gives None on every cell no placed ship covers.
ConfirmShipAt ==
  [][(/\ key' = <<"Enter">>
      /\ placement_mode.tag = "PlacingShip"
      /\ placement_mode' = Playing) =>
       /\ \A c \in Footprint(selected_x, selected_y, size(placement_mode.ship_type),
                             placement_mode.is_horizontal) :
            /\ player_board'[c[2]][c[1]] = "Ship"
            /\ get_ship_at(ship_positions', c[1], c[2]) = placement_mode.ship_type
       /\ \A x, y \in Coords :
            (\A i \in 1 .. Len(ship_positions') :
               <<x, y>> \notin FootprintOf(ship_positions'[i]))
            => get_ship_at(ship_positions', x, y) = "None"]_vars

\* C7: a reset in Playing mode leaves both boards all Empty and both lists
\* empty, so that no ship type counts as placed.
ResetClears ==
  (key = <<"R">> /\ placement_mode = Playing) =>
    /\ \A x, y \in Coords :
         player_board[y][x] = "Empty" /\ opponent_board[y][x] = "Empty"
    /\ ship_positions = <<>>
    /\ ships_placed = <<>>
    /\ \A i \in 1 .. Len(ShipOrder) : ~Contains(ships_placed, ShipOrder[i])

\* A session with a placed ship was saved and then reset.
ResetWitness ==
  /\ key = <<"R">>
  /\ placement_mode = Playing
  /\ out[1] = "Game saved as: "
  /\ last_save # None
  /\ last_save[1].ships_placed # <<>>
  /\ player_board = EmptyBoard

\* C8: in Playing mode mark-hit on the own board turns the selected cell to
\* Hit when it is Ship and leaves the own board unchanged otherwise; on the
\* opponent board it sets the selected cell to Hit.
MarkHit ==
  [][(key' = <<"H">> /\ placement_mode = Playing) =>
       IF is_player_board
         THEN /\ (OwnCell' = "Hit" /\ OwnCell' # OwnCell) <=> OwnCell = "Ship"
              /\ OwnCell # "Ship" => player_board' = player_board
         ELSE OppCell' = "Hit"]_vars

\* Mark-hit was pressed on an own cell a recorded ship covers: it is Hit.
MarkHitWitness ==
  /\ key = <<"H">>
  /\ placement_mode = Playing
  /\ is_player_board
  /\ OwnCell = "Hit"
  /\ get_ship_at(ship_positions, selected_x, selected_y) # "None"

\* C9: in Playing mode mark-miss on an own Ship cell changes nothing; on
\* any other own cell, and on the opponent board, the selected cell
\* becomes Miss.
MarkMiss ==
  [][(key' = <<"M">> /\ placement_mode = Playing) =>
       IF is_player_board /\ OwnCell = "Ship"
         THEN OwnCell' = "Ship" /\ UNCHANGED <<game, cursor, placement_mode, settings, sound_enabled, files>>
         ELSE IF is_player_board THEN OwnCell' = "Miss" ELSE OppCell' = "Miss"]_vars

\* Mark-miss was pressed on an own Ship cell, which is Ship still.
MarkMissWitness ==
  /\ key = <<"M">>
  /\ placement_mode = Playing
  /\ is_player_board
  /\ OwnCell = "Ship"

\* C10: in Playing mode clear-cell sets the selected cell of the active
\* board to Empty and changes no other cell, neither list, nor the cursor,
\* the active board or the mode.
ClearCell ==
  [][(key' = <<"C">> /\ placement_mode = Playing) =>
       /\ IF is_player_board THEN OwnCell' = "Empty" ELSE OppCell' = "Empty"
       /\ \A x, y \in Coords :
            /\ (~is_player_board \/ x # selected_x \/ y # selected_y)
                 => player_board'[y][x] = player_board[y][x]
            /\ (is_player_board \/ x # selected_x \/ y # selected_y)
                 => opponent_board'[y][x] = opponent_board[y][x]
       /\ UNCHANGED <<ship_positions, ships_placed, cursor, placement_mode>>]_vars

\* Clear-cell was pressed on an own cell that a recorded ship covers.
ClearCellWitness ==
  /\ key = <<"C">>
  /\ placement_mode = Playing
  /\ is_player_board
  /\ OwnCell = "Empty"
  /\ get_ship_at(ship_positions, selected_x, selected_y) # "None"

\* The footprint the confirm command of this state is about.
ConfirmFootprint ==
  Footprint(selected_x, selected_y, size(placement_mode.ship_type),
            placement_mode.is_horizontal)

\* The confirm command of this state is about a footprint that can be placed.
ConfirmFree ==
  FreeInGrid(player_board, selected_x, selected_y,
             size(placement_mode.ship_type), placement_mode.is_horizontal)

\* C11: in PlacingShip mode a confirm whose footprint leaves the grid or
\* covers a cell that is not Empty changes neither board, neither list, nor
\* the cursor, the active board or the mode.
RefusedConfirmNoOp ==
  [][(/\ key' = <<"Enter">>
      /\ placement_mode.tag = "PlacingShip"
      /\ ~ConfirmFree) =>
       UNCHANGED <<game, cursor, placement_mode>>]_vars

\* A confirm was refused because its footprint would leave the grid.
RefusedConfirmWitness ==
  /\ key = <<"Enter">>
  /\ placement_mode.tag = "PlacingShip"
  /\ \E c \in ConfirmFootprint : c[1] \notin Coords \/ c[2] \notin Coords

\* C12: in PlacingShip(T, o) mode a confirm at (x, y) whose footprint can be
\* placed sets exactly the footprint cells of the own board to Ship, leaves
\* every other own cell and the opponent board unchanged, appends the one
\* entry {T, x, y, o} to the placed-ship list and T to the placed-type
\* list, and sets the mode to Playing.
ConfirmPlaces ==
  [][(/\ key' = <<"Enter">>
      /\ placement_mode.tag = "PlacingShip"
      /\ ConfirmFree) =>
       /\ Cardinality(ConfirmFootprint) = size(placement_mode.ship_type)
       /\ \A x, y \in Coords :
            player_board'[y][x] = IF <<x, y>> \in ConfirmFootprint THEN "Ship"
                                  ELSE player_board[y][x]
       /\ opponent_board' = opponent_board
       /\ ship_positions' =
            ship_positions \o <<[ship_type |-> placement_mode.ship_type,
                                 x |-> selected_x, y |-> selected_y,
                                 is_horizontal |-> placement_mode.is_horizontal]>>
       /\ ships_placed' = ships_placed \o <<placement_mode.ship_type>>
       /\ placement_mode' = Playing]_vars

\* A vertical ship has just been confirmed, alone on its board.
ConfirmPlacesWitness ==
  /\ key = <<"Enter">>
  /\ placement_mode = Playing
  /\ Len(ship_positions) = 1
  /\ ~ship_positions[1].is_horizontal
  /\ \A c \in FootprintOf(ship_positions[1]) : player_board[c[2]][c[1]] = "Ship"

\* C13: with the settings menu closed and in Playing mode, the digit of a
\* type that is not in the placed-type list sets the mode to PlacingShip of
\* that type, horizontal, and the active board to own; the digit of a type
\* that is in the list changes nothing.
SelectShip ==
  [][(/\ key'[1] = "Digit"
      /\ ~show_settings
      /\ placement_mode = Playing) =>
       IF ~Contains(ships_placed, ShipOrder[key'[2]])
         THEN /\ placement_mode' = [tag |-> "PlacingShip",
                                    ship_type |-> ShipOrder[key'[2]],
                                    is_horizontal |-> TRUE]
              /\ is_player_board' = TRUE
              /\ UNCHANGED <<game, selected_x, selected_y>>
         ELSE UNCHANGED <<game, cursor, placement_mode, settings, sound_enabled,
                          files, out>>]_vars

\* The digit of a type that is already placed was pressed in Playing mode:
\* the mode is Playing still.
SelectShipWitness ==
  /\ key[1] = "Digit"
  /\ ~show_settings
  /\ placement_mode = Playing
  /\ Contains(ships_placed, ShipOrder[key[2]])
  /\ out[1] # "Loaded: "

\* The step <<dx, dy>> an arrow key asks for.
ArrowStep(k) ==
  CASE k = <<"ArrowUp">> -> <<0, 1>>
    [] k = <<"ArrowDown">> -> <<0, -1>>
    [] k = <<"ArrowLeft">> -> <<-1, 0>>
    [] k = <<"ArrowRight">> -> <<1, 0>>

ArrowKeys == {<<"ArrowUp">>, <<"ArrowDown">>, <<"ArrowLeft">>, <<"ArrowRight">>}

\* C14: the selected coordinate is always within 0..9 on both axes; an
\* arrow key moves it by one cell on one axis, and leaves it where it is
\* when that cell would be off the grid.
CursorClamped ==
  /\ [](selected_x \in 0 .. 9 /\ selected_y \in 0 .. 9)
  /\ [][key' \in ArrowKeys =>
          LET nx == selected_x + ArrowStep(key')[1]
              ny == selected_y + ArrowStep(key')[2]
          IN IF nx \in 0 .. 9 /\ ny \in 0 .. 9
               THEN selected_x' = nx /\ selected_y' = ny
               ELSE selected_x' = selected_x /\ selected_y' = selected_y]_vars

\* ArrowRight was pressed with the cursor at the right edge.
CursorClampedWitness ==
  /\ key = <<"ArrowRight">>
  /\ selected_x = GRID_SIZE - 1

\* Ctrl+P was pressed and place_random_ships has returned.
RandomDone == key = <<"Ctrl+P">> /\ random_loop.ship = 0

\* The cells the recorded ships cover.
Covered == UNION {FootprintOf(ship_positions[i]) : i \in 1 .. Len(ship_positions)}

\* C15: after a random placement the placed-ship list has at most five
\* entries and no type twice, every footprint lies in the grid, the
\* footprints are pairwise disjoint, and the own board is Ship on exactly
\* the covered cells and Empty everywhere else.
RandomPlaceResult ==
  RandomDone =>
    /\ Len(ship_positions) <= 5
    /\ \A i, j \in 1 .. Len(ship_positions) :
         i # j => /\ ship_positions[i].ship_type # ship_positions[j].ship_type
                  /\ FootprintOf(ship_positions[i]) \cap FootprintOf(ship_positions[j]) = {}
    /\ \A i \in 1 .. Len(ship_positions) :
         \A c \in FootprintOf(ship_positions[i]) : c[1] \in 0 .. 9 /\ c[2] \in 0 .. 9
    /\ \A x, y \in Coords :
         player_board[y][x] = IF <<x, y>> \in Covered THEN "Ship" ELSE "Empty"

\* A random placement run while a ship was being placed has ended with two
\* ships on the board.
RandomPlaceWitness ==
  /\ RandomDone
  /\ placement_mode.tag = "PlacingShip"
  /\ Len(ship_positions) = 2

\* C16: the generator terminates; no type gets more than 100 attempts; a
\* type is attempted only while it is unplaced; the loop leaves a type, for
\* the next one in ShipOrder, after its success or after its 100th attempt,
\* and a type that used up its attempts stays unplaced.
RandomTerminates ==
  /\ [](random_loop.attempts <= 100)
  /\ [][random_loop'.attempts = random_loop.attempts + 1 =>
          /\ random_loop.attempts < 100
          /\ random_loop'.ship = random_loop.ship
          /\ ~Contains(ships_placed, ShipOrder[random_loop.ship])]_vars
  /\ [][(random_loop.ship \in 1 .. 5 /\ random_loop'.ship # random_loop.ship) =>
          /\ random_loop'.ship = random_loop.ship + 1
          /\ UNCHANGED game
          /\ \/ Contains(ships_placed, ShipOrder[random_loop.ship])
             \/ random_loop.attempts = 100]_vars
  /\ (random_loop.ship # 0 ~> random_loop.ship = 0)
  /\ ShipOrder = <<"Carrier", "Battleship", "Cruiser", "Submarine", "Destroyer">>

\* The Carrier used up its attempts and the Destroyer was placed after it.
RandomTerminatesWitness ==
  /\ RandomDone
  /\ ~Contains(ships_placed, "Carrier")
  /\ Contains(ships_placed, "Destroyer")

\* C17: a random placement leaves the opponent board, the cursor, the
\* active board and the mode as they were.
RandomPlaceFrame ==
  [][key' = <<"Ctrl+P">> =>
       UNCHANGED <<opponent_board, cursor, placement_mode>>]_vars

\* C18: after a new-game command, in any mode, both boards are all Empty,
\* both lists are empty and there is no current save name: the session is
\* the one of a fresh start.
NewGameEmpty ==
  key = <<"Ctrl+N">> =>
    /\ \A x, y \in Coords :
         player_board[y][x] = "Empty" /\ opponent_board[y][x] = "Empty"
    /\ ship_positions = <<>>
    /\ ships_placed = <<>>
    /\ current_save = <<>>

\* A session with marks was saved under a name, and a new game was started
\* while a ship was being placed.
NewGameWitness ==
  /\ key = <<"Ctrl+N">>
  /\ was_placing
  /\ placement_mode.tag = "PlacingShip"
  /\ last_save # None
  /\ last_save[1].player_board # EmptyBoard

\* C19: every entry of the placed-ship list has its whole footprint in the
\* grid: x + size <= 10 and y <= 9 when horizontal, y + size <= 10 and
\* x <= 9 when vertical.
FootprintsInGrid ==
  \A i \in 1 .. Len(ship_positions) :
    LET s == ship_positions[i]
    IN IF s.is_horizontal
         THEN s.x + size(s.ship_type) <= 10 /\ s.y <= 9
         ELSE s.y + size(s.ship_type) <= 10 /\ s.x <= 9

\* A saved session with a ship has just been loaded.
FootprintsInGridWitness ==
  /\ key = <<"Ctrl+L">>
  /\ out[1] = "Game loaded: "
  /\ ship_positions # <<>>

\* C20: in PlacingShip(T, o) mode Escape sets the mode to Playing and leaves
\* both boards, both lists, the cursor and the active board unchanged; a
\* type T that was unplaced is unplaced still and can be selected.
CancelFrame ==
  [][(key' = <<"Escape">> /\ placement_mode.tag = "PlacingShip") =>
       /\ placement_mode' = Playing
       /\ UNCHANGED <<game, cursor>>
       /\ ~Contains(ships_placed, placement_mode.ship_type) =>
            /\ ~Contains(ships_placed', placement_mode.ship_type)
            /\ ~show_settings']_vars

\* Escape was pressed while a ship was being placed next to another one.
CancelWitness ==
  /\ key = <<"Escape">>
  /\ was_placing
  /\ placement_mode = Playing
  /\ ship_positions # <<>>

\* C21: in PlacingShip(T, o) mode Space changes the mode to PlacingShip(T,
\* not o) and nothing else, so that a second Space gives the first mode
\* back; in Playing mode Space changes nothing.
RotateFlips ==
  [][key' = <<"Space">> =>
       /\ UNCHANGED <<game, cursor, settings, sound_enabled, files, out>>
       /\ IF placement_mode.tag = "PlacingShip"
            THEN /\ placement_mode'.tag = "PlacingShip"
                 /\ placement_mode'.ship_type = placement_mode.ship_type
                 /\ placement_mode'.is_horizontal = ~placement_mode.is_horizontal
                 /\ [placement_mode' EXCEPT !.is_horizontal = ~@] = placement_mode
            ELSE placement_mode' = placement_mode]_vars

\* Space was pressed on a vertical ship, which is horizontal again.
RotateWitness ==
  /\ key = <<"Space">>
  /\ was_placing
  /\ placement_mode.tag = "PlacingShip"
  /\ placement_mode.is_horizontal

\* The keys of the commands that are defined from Playing only.
PlayingOnlyKeys ==
  {<<"Tab">>, <<"H">>, <<"M">>, <<"C">>, <<"R">>} \cup {<<"Digit", i>> : i \in 1 .. 5}

\* C24: in PlacingShip mode Tab, the digits, H, M, C and R leave both
\* boards, both lists, the active board and the mode unchanged.
PlayingOnlyNoOps ==
  [][(key' \in PlayingOnlyKeys /\ placement_mode.tag = "PlacingShip") =>
       UNCHANGED <<game, is_player_board, placement_mode>>]_vars

\* H was pressed on a Ship cell of the own board while another ship was
\* being placed: the cell is Ship still.
PlayingOnlyWitness ==
  /\ key = <<"H">>
  /\ was_placing
  /\ placement_mode.tag = "PlacingShip"
  /\ is_player_board
  /\ OwnCell = "Ship"

\* C25: a step from PlacingShip to PlacingShip keeps the ship type, and a
\* step from PlacingShip to Playing is a cancel or a confirm.
PlacingKeepsType ==
  [][placement_mode.tag = "PlacingShip" =>
       IF placement_mode'.tag = "PlacingShip"
         THEN placement_mode'.ship_type = placement_mode.ship_type
         ELSE key' \in {<<"Escape">>, <<"Enter">>}]_vars

\* The digit of another ship type was pressed while a ship was being placed.
PlacingKeepsTypeWitness ==
  /\ key[1] = "Digit"
  /\ was_placing
  /\ placement_mode.tag = "PlacingShip"
  /\ ShipOrder[key[2]] # placement_mode.ship_type

\* The last step listed the save directory: it opened the settings menu,
\* pressed S in it, or saved.
Listed ==
  \/ key = <<"Escape">> /\ show_settings
  \/ key \in {<<"S">>, <<"Ctrl+S">>} /\ show_settings
  \/ key = <<"Ctrl+S">> /\ out[1] = "Game saved as: "

\* The stored records that parse, and those that do not.
Parseable == {p \in DOMAIN files : EndsWithJson(p) /\ ParseOk(files[p])}
Unparseable == {p \in DOMAIN files : EndsWithJson(p) /\ ~ParseOk(files[p])}

\* C22: after a listing the list has one entry for every stored record that
\* parses, and no other entry, whether or not some record fails to parse.
ListingComplete ==
  Listed =>
    /\ Len(saves) = Cardinality(Parseable)
    /\ \A p \in Parseable : \E i \in DOMAIN saves : saves[i] = FromJson(files[p])
    /\ \A i \in DOMAIN saves : \E p \in Parseable : saves[i] = FromJson(files[p])

\* A listing of a directory with two records that parse and one that does not.
ListingWitness ==
  /\ Listed
  /\ Unparseable # {}
  /\ Len(saves) = 2

\* The characters of a filesystem-safe name.
SafeChars == Alphanumeric \cup {"-", "_"}

\* C23: the name a save returns (the one printed after "Game saved as: ")
\* is non-empty and made of alphanumerics, '-' and '_' only.
SavedNameSafe ==
  out[1] = "Game saved as: " =>
    /\ Len(out[2]) > 0
    /\ \A i \in DOMAIN out[2] : out[2][i] \in SafeChars

\* C26: no cell of the opponent board is Ship.
OpponentNeverShip ==
  \A x, y \in Coords : opponent_board[x][y] # "Ship"

\* A session with an opponent mark was saved and loaded again.
OpponentNeverShipWitness ==
  /\ key = <<"Ctrl+L">>
  /\ out[1] = "Game loaded: "
  /\ opponent_board # EmptyBoard

\* The types of the entries of the placed-ship list.
PlacedTypes == {ship_positions[i].ship_type : i \in 1 .. Len(ship_positions)}

\* C27: the placed-type list and the placed-ship list have the same length,
\* and a type is in the first exactly when the second has an entry of it.
ListsAgree ==
  /\ Len(ships_placed) = Len(ship_positions)
  /\ \A t \in ShipType : Contains(ships_placed, t) <=> t \in PlacedTypes

\* A confirm has put a second ship in the lists.
ListsAgreeWitness ==
  /\ key = <<"Enter">>
  /\ Len(ship_positions) = 2
  /\ Len(ships_placed) = 2

\* C28: every cell of the own board that is Ship or Hit is covered by an
\* entry of the placed-ship list.
ShipCellsCovered ==
  \A x, y \in Coords :
    player_board[y][x] \in {"Ship", "Hit"} => <<x, y>> \in Covered

\* A cell of a placed ship was marked Hit, next to one that is Ship still.
ShipCellsCoveredWitness ==
  /\ Len(ship_positions) > 0
  /\ \E c, d \in Covered : /\ player_board[c[2]][c[1]] = "Hit"
                           /\ player_board[d[2]][d[1]] = "Ship"

\* C29: whenever the mode is PlacingShip the active board is the own board.
PlacingOnOwnBoard ==
  placement_mode.tag = "PlacingShip" => is_player_board

\* The names a record of the save directory can be asked for by.
RecordNames ==
  {<<"a", " ", "b">>, <<"a", "_", "b">>} \cup generate_random_name

\* What load_from_file(name) copies into the session.
LoadedSession(fs, name) ==
  <<Loaded(fs, name).player_board, Loaded(fs, name).opponent_board,
    Loaded(fs, name).ship_positions, Loaded(fs, name).ships_placed>>

\* C30: a save under the name n leaves what a load of any other name m
\* returns as it was, also when n and m differ only in characters that
\* sanitize_filename replaces.
SaveKeepsOtherNames ==
  [][(key' = <<"Ctrl+S">> /\ out'[1] = "Game saved as: ") =>
       \A m \in RecordNames \ {out'[2]} :
         LoadOk(files, m) =>
           /\ LoadOk(files', m)
           /\ LoadedSession(files', m) = LoadedSession(files, m)]_vars

\* C31: on the own board no cell covered by an entry of the placed-ship
\* list is Miss.
ShipCellNeverMiss ==
  \A c \in Covered : player_board[c[2]][c[1]] # "Miss"
====
